---- MODULE Spec2Model ----
(***************************************************************************)
(* Model of actor-model/reddit.go: the EngineActor (the coordinator) that  *)
(* owns users, subreddits and the two id counters, the driver loop of      *)
(* main() that sends one request and blocks on its reply channel, and the  *)
(* unbuffered reply channel between them.                                  *)
(***************************************************************************)
EXTENDS Integers, Sequences, FiniteSets, TLC

\* ------------------------------------------------------------------ bounds
\* Number of requests the driver submits in one run.
MaxOps == 5

\* ------------------------------------------------------------------ inputs
Usernames == {"al", "bo"}
UserIDs == {1, 2}
SubNames == {"go", "rs"}
Contents == {"x"}
PostIDs == {1, 2}
CommentIDs == {-1, 0, 1, 2}

\* main() runs one driver loop (the for at the top of the menu).
NumDrivers == 1

\* Number of concurrent callers in the specification with several callers.
NumCallers == 2

VARIABLES
    users,        \* EngineActor.users: id -> User
    subreddits,   \* EngineActor.subreddits: name -> Subreddit
    nextUserID,   \* EngineActor.nextUserID
    nextPostID,   \* EngineActor.nextPostID
    mu,           \* EngineActor.mu: TRUE while locked
    mailbox,      \* the actor's inbound queue
    cur,          \* the message Receive is handling (NoMsg when idle)
    todo,         \* what is left of the handler: channel sends and unlocks
    driver,       \* per driver loop: "idle" at the menu or "waiting" on <-reply
    nextChan,     \* number of reply channels made so far
    dropped,      \* history: channels whose handler ended without a send
    nReg,         \* history: number of RegisterUser requests handled
    inboxLog,     \* history: per user, the message requests addressed to it
    lastJL,       \* history: per (user, community), the last join or leave
    path          \* history: what the handler in hand did to the lock and the
                  \* store so far, in program order

store == <<users, subreddits, nextUserID, nextPostID>>
history == <<dropped, nReg, inboxLog, lastJL>>
vars == <<users, subreddits, nextUserID, nextPostID, mu, mailbox, cur, todo,
          driver, nextChan, dropped, nReg, inboxLog, lastJL, path>>

\* ------------------------------------------------------------ text output
\* The ANSI colour sequences \033[1;32m, \033[1;31m and \033[0m.
Green == "ESC[1;32m"
Red == "ESC[1;31m"
Reset == "ESC[0m"

NoMsg == [kind |-> "none"]

\* getUsername: the display name, or "User<id>" for an unregistered id.
getUsername(userID) ==
    IF userID \in DOMAIN users THEN users[userID].Username
    ELSE "User" \o ToString(userID)

\* strings.Join(lines, sep)
RECURSIVE Join(_, _)
Join(lines, sep) ==
    IF Len(lines) = 0 THEN ""
    ELSE IF Len(lines) = 1 THEN lines[1]
    ELSE lines[1] \o sep \o Join(Tail(lines), sep)

\* One channel send, msg.Reply <- v
SendStep(ch, v) == [op |-> "send", ch |-> ch, v |-> v]
\* state.mu.Unlock() that the code places after the send
UnlockStep == [op |-> "unlock"]

\* The requests the menu can build around reply channel ch.
Requests(ch) ==
    [kind : {"RegisterUser"}, Username : Usernames, Reply : {ch}]
    \cup [kind : {"CreateSubreddit", "JoinSubreddit", "LeaveSubreddit"},
          UserID : UserIDs, Subreddit : SubNames, Reply : {ch}]
    \cup [kind : {"CreatePost"}, UserID : UserIDs, Subreddit : SubNames,
          Content : Contents, Reply : {ch}]
    \cup [kind : {"CommentOnPost"}, PostID : PostIDs, UserID : UserIDs,
          Content : Contents, Reply : {ch}]
    \cup [kind : {"ReplyToComment"}, PostID : PostIDs, CommentID : CommentIDs,
          UserID : UserIDs, Content : Contents, Reply : {ch}]
    \cup [kind : {"LikePost", "DislikePost"}, PostID : PostIDs,
          UserID : UserIDs, Reply : {ch}]
    \cup [kind : {"SendMessage", "ReplyToMessage"}, SenderID : UserIDs,
          ReceiverID : UserIDs, Content : Contents, Reply : {ch}]
    \cup [kind : {"ViewInbox"}, UserID : UserIDs, Reply : {ch}]

Init ==
    /\ users = << >>
    /\ subreddits = << >>
    /\ nextUserID = 0
    /\ nextPostID = 0
    /\ mu = FALSE
    /\ mailbox = << >>
    /\ cur = NoMsg
    /\ todo = << >>
    /\ driver = [d \in 1..NumDrivers |-> [st |-> "idle", ch |-> 0]]
    /\ nextChan = 0
    /\ dropped = {}
    /\ nReg = 0
    /\ inboxLog = << >>
    /\ lastJL = << >>
    /\ path = << >>

\* ------------------------------------------------------------- the driver
\* One case of main's switch: make(chan string), Root.Send, then <-reply.
DriverSend(d) ==
    /\ driver[d].st = "idle"
    /\ nextChan < MaxOps
    /\ \E msg \in Requests(nextChan + 1) :
          mailbox' = Append(mailbox, msg)
    /\ nextChan' = nextChan + 1
    /\ driver' = [driver EXCEPT ![d] = [st |-> "waiting", ch |-> nextChan + 1]]
    /\ UNCHANGED <<store, mu, cur, todo, history, path>>

\* ------------------------------------------------------ the coordinator
\* Receive is entered with the message at the head of the mailbox.
Dequeue(kind) ==
    /\ cur = NoMsg
    /\ mailbox # << >>
    /\ Head(mailbox).kind = kind

\* The handler has run up to its channel send; steps is what is left of it.
RunTo(msg, steps) ==
    /\ mailbox' = Tail(mailbox)
    /\ cur' = msg
    /\ todo' = steps
    /\ UNCHANGED <<driver, nextChan, dropped>>

\* What each handler does to the mutex and the store before it blocks on its
\* send (or ends), in program order: "lock" is state.mu.Lock(), "unlock" is
\* state.mu.Unlock(), "access" is a read or write of users, subreddits, a
\* post, a comment, an inbox or a counter.
\* RegisterUser formats its reply from user.ID after the Unlock.
PathRegisterUser == <<"lock", "access", "unlock", "access">>

\* Every handler that locks first and sends before it unlocks.
PathLocked == <<"lock", "access">>

\* CommentOnPost unlocks before the send when no post matches.
PathCommentOnPost(found) ==
    IF found THEN <<"lock", "access">> ELSE <<"lock", "access", "unlock">>

\* ReplyToComment that panics: the deferred Unlock runs as the handler ends.
PathReplyPanic == <<"lock", "access", "unlock">>

\* LikePost and DislikePost call getUsername without taking the lock.
PathLike == <<"access">>

\* state.nextUserID++ and the User literal built from the new counter value.
NewUserStaleID(msg) ==
    [ID |-> nextUserID, Username |-> msg.Username, Inbox |-> << >>]

NewUser(msg) ==
    [ID |-> nextUserID + 1, Username |-> msg.Username, Inbox |-> << >>]

\* case *RegisterUser
RegisterUser ==
    /\ Dequeue("RegisterUser")
    /\ ~mu
    /\ LET msg == Head(mailbox)
           user == NewUser(msg)
       IN /\ nextUserID' = nextUserID + 1
          /\ users' = (user.ID :> user) @@ users
          /\ mu' = FALSE
          /\ RunTo(msg, <<SendStep(msg.Reply,
                  Green \o "User '" \o msg.Username
                  \o "' registered successfully with ID "
                  \o ToString(user.ID) \o "." \o Reset)>>)
          /\ nReg' = nReg + 1
          /\ inboxLog' = (user.ID :> << >>) @@ inboxLog
          /\ path' = PathRegisterUser
          /\ UNCHANGED <<subreddits, nextPostID, lastJL>>

\* The map after CreateSubreddit: an entry is written only for a new name.
SubredditsAfterCreateAlways(name) ==
    (name :> [Name |-> name, Users |-> {}, Posts |-> << >>]) @@ subreddits

SubredditsAfterCreate(name) ==
    IF name \in DOMAIN subreddits THEN subreddits
    ELSE (name :> [Name |-> name, Users |-> {}, Posts |-> << >>]) @@ subreddits

\* case *CreateSubreddit
CreateSubreddit ==
    /\ Dequeue("CreateSubreddit")
    /\ ~mu
    /\ LET msg == Head(mailbox)
       IN /\ mu' = TRUE
          /\ subreddits' = SubredditsAfterCreate(msg.Subreddit)
          /\ IF msg.Subreddit \in DOMAIN subreddits
             THEN RunTo(msg, <<SendStep(msg.Reply,
                          Green \o "Subreddit '" \o msg.Subreddit
                          \o "' already exists." \o Reset), UnlockStep>>)
             ELSE RunTo(msg, <<SendStep(msg.Reply,
                          Green \o "Subreddit '" \o msg.Subreddit
                          \o "' created successfully." \o Reset), UnlockStep>>)
          /\ path' = PathLocked
          /\ UNCHANGED <<users, nextUserID, nextPostID, nReg, inboxLog, lastJL>>

\* The reply of every handler that finds no community of that name.
NoSubreddit(name) == Red \o "Subreddit '" \o name \o "' does not exist." \o Reset

\* subreddit.Users[msg.UserID] = true
MembersAfterJoinToggle(members, userID) ==
    IF userID \in members THEN members \ {userID} ELSE members \cup {userID}

MembersAfterJoin(members, userID) == members \cup {userID}

\* The map after JoinSubreddit: only an existing community is touched.
SubredditsAfterJoinImplicit(msg) ==
    IF msg.Subreddit \in DOMAIN subreddits
    THEN [subreddits EXCEPT ![msg.Subreddit].Users =
              MembersAfterJoin(@, msg.UserID)]
    ELSE (msg.Subreddit :> [Name |-> msg.Subreddit, Users |-> {msg.UserID},
                            Posts |-> << >>]) @@ subreddits

SubredditsAfterJoin(msg) ==
    IF msg.Subreddit \in DOMAIN subreddits
    THEN [subreddits EXCEPT ![msg.Subreddit].Users =
              MembersAfterJoin(@, msg.UserID)]
    ELSE subreddits

\* delete(subreddit.Users, msg.UserID)
MembersAfterLeave(members, userID) == members \ {userID}

\* case *JoinSubreddit
JoinSubreddit ==
    /\ Dequeue("JoinSubreddit")
    /\ ~mu
    /\ LET msg == Head(mailbox)
       IN /\ mu' = TRUE
          /\ subreddits' = SubredditsAfterJoin(msg)
          /\ IF msg.Subreddit \in DOMAIN subreddits
             THEN /\ RunTo(msg, <<SendStep(msg.Reply,
                          Green \o "User '" \o getUsername(msg.UserID)
                          \o "' joined subreddit '" \o msg.Subreddit \o "'."
                          \o Reset), UnlockStep>>)
                  /\ lastJL' = (<<msg.UserID, msg.Subreddit>> :> "join") @@ lastJL
             ELSE /\ UNCHANGED lastJL
                  /\ RunTo(msg, <<SendStep(msg.Reply, NoSubreddit(msg.Subreddit)),
                                  UnlockStep>>)
          /\ path' = PathLocked
          /\ UNCHANGED <<users, nextUserID, nextPostID, nReg, inboxLog>>

\* case *LeaveSubreddit
LeaveSubreddit ==
    /\ Dequeue("LeaveSubreddit")
    /\ ~mu
    /\ LET msg == Head(mailbox)
       IN /\ mu' = TRUE
          /\ IF msg.Subreddit \in DOMAIN subreddits
             THEN /\ subreddits' = [subreddits EXCEPT
                        ![msg.Subreddit].Users = MembersAfterLeave(@, msg.UserID)]
                  /\ RunTo(msg, <<SendStep(msg.Reply,
                          Green \o "User '" \o getUsername(msg.UserID)
                          \o "' left subreddit '" \o msg.Subreddit \o "'."
                          \o Reset), UnlockStep>>)
                  /\ lastJL' = (<<msg.UserID, msg.Subreddit>> :> "leave") @@ lastJL
             ELSE /\ UNCHANGED <<subreddits, lastJL>>
                  /\ RunTo(msg, <<SendStep(msg.Reply, NoSubreddit(msg.Subreddit)),
                                  UnlockStep>>)
          /\ path' = PathLocked
          /\ UNCHANGED <<users, nextUserID, nextPostID, nReg, inboxLog>>

\* state.nextPostID++ runs before the community is looked up.
PostCounterAfterOnSuccess(msg) ==
    IF msg.Subreddit \in DOMAIN subreddits THEN nextPostID + 1 ELSE nextPostID

PostCounterAfter(msg) == nextPostID + 1

\* The Post literal, built from the new counter value.
NewPostLocalID(msg) ==
    [ID |-> Len(subreddits[msg.Subreddit].Posts) + 1, UserID |-> msg.UserID,
     Subreddit |-> msg.Subreddit, Content |-> msg.Content, Comments |-> << >>]

NewPost(msg) ==
    [ID |-> PostCounterAfter(msg), UserID |-> msg.UserID,
     Subreddit |-> msg.Subreddit, Content |-> msg.Content, Comments |-> << >>]

\* case *CreatePost
CreatePost ==
    /\ Dequeue("CreatePost")
    /\ ~mu
    /\ LET msg == Head(mailbox)
       IN /\ mu' = TRUE
          /\ nextPostID' = PostCounterAfter(msg)
          /\ IF msg.Subreddit \in DOMAIN subreddits
             THEN /\ subreddits' = [subreddits EXCEPT
                        ![msg.Subreddit].Posts = Append(@, NewPost(msg))]
                  /\ RunTo(msg, <<SendStep(msg.Reply,
                          Green \o "User '" \o getUsername(msg.UserID)
                          \o "' posted in '" \o msg.Subreddit \o "': "
                          \o msg.Content \o Reset), UnlockStep>>)
             ELSE /\ UNCHANGED subreddits
                  /\ RunTo(msg, <<SendStep(msg.Reply, NoSubreddit(msg.Subreddit)),
                                  UnlockStep>>)
          /\ path' = PathLocked
          /\ UNCHANGED <<users, nextUserID, nReg, inboxLog, lastJL>>

\* The orders in which range may visit the keys of a map.
RangeOrders(keys) ==
    {o \in [1..Cardinality(keys) -> keys] :
        \A i, j \in 1..Cardinality(keys) : o[i] = o[j] => i = j}

\* Inner loop of CommentOnPost: index of the first post with that id, or 0.
FirstPost(posts, postID) ==
    LET hits == {i \in 1..Len(posts) : posts[i].ID = postID}
    IN IF hits = {} THEN 0 ELSE CHOOSE i \in hits : \A j \in hits : i <= j

\* Outer loop of CommentOnPost over the communities in range order.
RECURSIVE ScanForPost(_, _)
ScanForPost(order, postID) ==
    IF order = << >> THEN [sub |-> "", idx |-> 0]
    ELSE LET idx == FirstPost(subreddits[Head(order)].Posts, postID)
         IN IF idx > 0 THEN [sub |-> Head(order), idx |-> idx]
            ELSE ScanForPost(Tail(order), postID)

\* What is left of CommentOnPost once the comment is appended: the send, the
\* Unlock and the return.
CommentFoundStepsNoReturn(msg) ==
    <<SendStep(msg.Reply,
          Green \o "User '" \o getUsername(msg.UserID) \o "' commented on post "
          \o ToString(msg.PostID) \o ": " \o msg.Content \o Reset),
      UnlockStep,
      SendStep(msg.Reply, Red \o "Post ID '%!d(MISSING)' not found." \o Reset)>>

CommentFoundStepsNoUnlock(msg) ==
    <<SendStep(msg.Reply,
          Green \o "User '" \o getUsername(msg.UserID) \o "' commented on post "
          \o ToString(msg.PostID) \o ": " \o msg.Content \o Reset)>>

CommentFoundSteps(msg) ==
    <<SendStep(msg.Reply,
          Green \o "User '" \o getUsername(msg.UserID) \o "' commented on post "
          \o ToString(msg.PostID) \o ": " \o msg.Content \o Reset),
      UnlockStep>>

\* post.Comments = append(post.Comments, line)
CommentsAfterReset(comments, line) == <<line>>

CommentsAfter(comments, line) == Append(comments, line)

\* case *CommentOnPost
CommentOnPost ==
    /\ Dequeue("CommentOnPost")
    /\ ~mu
    /\ \E order \in RangeOrders(DOMAIN subreddits) :
         LET msg == Head(mailbox)
             hit == ScanForPost(order, msg.PostID)
         IN IF hit.idx > 0
            THEN /\ subreddits' = [subreddits EXCEPT
                       ![hit.sub].Posts[hit.idx].Comments =
                           CommentsAfter(@, "User '" \o getUsername(msg.UserID)
                                            \o "': " \o msg.Content)]
                 /\ mu' = TRUE
                 /\ RunTo(msg, CommentFoundSteps(msg))
                 /\ path' = PathCommentOnPost(TRUE)
            ELSE /\ UNCHANGED subreddits
                 /\ mu' = FALSE
                 /\ RunTo(msg, <<SendStep(msg.Reply,
                         Red \o "Post ID '%!d(MISSING)' not found." \o Reset)>>)
                 /\ path' = PathCommentOnPost(FALSE)
    /\ UNCHANGED <<users, nextUserID, nextPostID, nReg, inboxLog, lastJL>>

\* Inner loop of ReplyToComment: index of the first post with that id whose
\* comment list has the index, or 0 (a post with that id and no such comment
\* does not end the scan).
FirstCommentAnyIndex(posts, postID, commentID) ==
    LET hits == {i \in 1..Len(posts) : posts[i].ID = postID}
    IN IF hits = {} THEN 0 ELSE CHOOSE i \in hits : \A j \in hits : i <= j

FirstComment(posts, postID, commentID) ==
    LET hits == {i \in 1..Len(posts) :
                    /\ posts[i].ID = postID
                    /\ commentID >= 1
                    /\ commentID <= Len(posts[i].Comments)}
    IN IF hits = {} THEN 0 ELSE CHOOSE i \in hits : \A j \in hits : i <= j

\* Outer loop of ReplyToComment over the communities in range order.
RECURSIVE ScanForComment(_, _, _)
ScanForComment(order, postID, commentID) ==
    IF order = << >> THEN [sub |-> "", idx |-> 0]
    ELSE LET idx == FirstComment(subreddits[Head(order)].Posts, postID, commentID)
         IN IF idx > 0 THEN [sub |-> Head(order), idx |-> idx]
            ELSE ScanForComment(Tail(order), postID, commentID)

\* case *ReplyToComment. state.users[msg.UserID].Username dereferences a nil
\* *User when the id is not registered: the handler panics before the
\* comment is written and before any send; the deferred Unlock still runs.
ReplyToComment ==
    /\ Dequeue("ReplyToComment")
    /\ ~mu
    /\ \E order \in RangeOrders(DOMAIN subreddits) :
         LET msg == Head(mailbox)
             hit == ScanForComment(order, msg.PostID, msg.CommentID)
         IN IF hit.idx > 0
            THEN IF msg.UserID \in DOMAIN users
                 THEN /\ subreddits' = [subreddits EXCEPT
                            ![hit.sub].Posts[hit.idx].Comments[msg.CommentID] =
                                @ \o "\nReply by '" \o users[msg.UserID].Username
                                  \o "': " \o msg.Content]
                      /\ mu' = TRUE
                      /\ RunTo(msg, <<SendStep(msg.Reply,
                              Green \o "User '" \o users[msg.UserID].Username
                              \o "' replied to comment " \o ToString(msg.CommentID)
                              \o " on post " \o ToString(msg.PostID) \o ": "
                              \o msg.Content \o Reset), UnlockStep>>)
                      /\ path' = PathLocked
                 ELSE /\ UNCHANGED <<subreddits, driver, nextChan>>
                      /\ path' = PathReplyPanic
                      /\ mu' = FALSE
                      /\ mailbox' = Tail(mailbox)
                      /\ cur' = NoMsg
                      /\ todo' = << >>
                      /\ dropped' = dropped \cup {msg.Reply}
            ELSE /\ UNCHANGED subreddits
                 /\ mu' = TRUE
                 /\ RunTo(msg, <<SendStep(msg.Reply,
                         Red \o "Comment or Post not found." \o Reset),
                         UnlockStep>>)
                 /\ path' = PathLocked
    /\ UNCHANGED <<users, nextUserID, nextPostID, nReg, inboxLog, lastJL>>

\* LikePost as it would be with a lookup of the post before the reply.
LikePostChecked ==
    /\ Dequeue("LikePost")
    /\ LET msg == Head(mailbox)
       IN RunTo(msg, <<SendStep(msg.Reply,
                  IF \E n \in DOMAIN subreddits :
                        FirstPost(subreddits[n].Posts, msg.PostID) > 0
                  THEN Green \o "User '" \o getUsername(msg.UserID)
                       \o "' liked post " \o ToString(msg.PostID) \o "." \o Reset
                  ELSE Red \o "Post ID '" \o ToString(msg.PostID)
                       \o "' not found." \o Reset)>>)
    /\ path' = PathLike
    /\ UNCHANGED <<store, mu, nReg, inboxLog, lastJL>>

\* case *LikePost: no lock is taken.
LikePost ==
    /\ Dequeue("LikePost")
    /\ LET msg == Head(mailbox)
       IN RunTo(msg, <<SendStep(msg.Reply,
                  Green \o "User '" \o getUsername(msg.UserID) \o "' liked post "
                  \o ToString(msg.PostID) \o "." \o Reset)>>)
    /\ path' = PathLike
    /\ UNCHANGED <<store, mu, nReg, inboxLog, lastJL>>

\* case *DislikePost: no lock is taken.
DislikePost ==
    /\ Dequeue("DislikePost")
    /\ LET msg == Head(mailbox)
       IN RunTo(msg, <<SendStep(msg.Reply,
                  Green \o "User '" \o getUsername(msg.UserID)
                  \o "' disliked post " \o ToString(msg.PostID) \o "."
                  \o Reset)>>)
    /\ path' = PathLike
    /\ UNCHANGED <<store, mu, nReg, inboxLog, lastJL>>

\* The reply of every handler that finds no user of that id.
NoUser(userID) ==
    Red \o "User with ID " \o ToString(userID) \o " does not exist." \o Reset

\* receiver.Inbox = append(receiver.Inbox, line)
InboxAfterPrepend(inbox, line) == <<line>> \o inbox

InboxAfterCapped(inbox, line) ==
    IF Len(inbox) >= 1 THEN Append(Tail(inbox), line) ELSE Append(inbox, line)

InboxAfter(inbox, line) == Append(inbox, line)

\* The users after a message line is delivered: only the receiver's inbox
\* is written.
UsersAfterMessageWithCopy(msg, line) ==
    [u \in DOMAIN users |->
        IF u = msg.ReceiverID \/ u = msg.SenderID
        THEN [users[u] EXCEPT !.Inbox = InboxAfter(@, line)]
        ELSE users[u]]

UsersAfterMessage(msg, line) ==
    [users EXCEPT ![msg.ReceiverID].Inbox = InboxAfter(@, line)]

\* The body shared by SendMessage and ReplyToMessage: word is "Message" or
\* "Reply".
Post2Inbox(msg, word) ==
    /\ mu' = TRUE
    /\ IF msg.ReceiverID \in DOMAIN users
       THEN /\ users' = UsersAfterMessage(msg,
                  word \o " from '" \o getUsername(msg.SenderID)
                  \o "': " \o msg.Content)
            /\ RunTo(msg, <<SendStep(msg.Reply,
                    Green \o word \o " sent to User '"
                    \o users[msg.ReceiverID].Username \o "'." \o Reset),
                    UnlockStep>>)
            /\ inboxLog' = [inboxLog EXCEPT ![msg.ReceiverID] =
                  Append(@, [kind |-> msg.kind,
                             from |-> getUsername(msg.SenderID),
                             text |-> msg.Content])]
       ELSE /\ UNCHANGED <<users, inboxLog>>
            /\ RunTo(msg, <<SendStep(msg.Reply, NoUser(msg.ReceiverID)),
                            UnlockStep>>)
    /\ path' = PathLocked
    /\ UNCHANGED <<subreddits, nextUserID, nextPostID, nReg, lastJL>>

\* case *SendMessage
SendMessage ==
    /\ Dequeue("SendMessage")
    /\ ~mu
    /\ Post2Inbox(Head(mailbox), "Message")

\* case *ReplyToMessage
ReplyToMessage ==
    /\ Dequeue("ReplyToMessage")
    /\ ~mu
    /\ Post2Inbox(Head(mailbox), "Reply")

\* case *ViewInbox
ViewInbox ==
    /\ Dequeue("ViewInbox")
    /\ ~mu
    /\ LET msg == Head(mailbox)
       IN /\ mu' = TRUE
          /\ RunTo(msg, <<SendStep(msg.Reply,
                IF msg.UserID \in DOMAIN users
                THEN IF Len(users[msg.UserID].Inbox) = 0
                     THEN Green \o "Inbox is empty." \o Reset
                     ELSE Green \o "Inbox:\n"
                          \o Join(users[msg.UserID].Inbox, "\n") \o Reset
                ELSE NoUser(msg.UserID)), UnlockStep>>)
    /\ path' = PathLocked
    /\ UNCHANGED <<store, nReg, inboxLog, lastJL>>

\* The driver's <-reply meets the handler's send; the handler then runs on
\* (unlocking where the code unlocks after the send) and returns.
RECURSIVE DropUnlocks(_)
DropUnlocks(steps) ==
    IF steps # << >> /\ Head(steps).op = "unlock" THEN DropUnlocks(Tail(steps))
    ELSE steps

Deliver(d) ==
    /\ todo # << >>
    /\ Head(todo).op = "send"
    /\ driver[d].st = "waiting"
    /\ driver[d].ch = Head(todo).ch
    /\ driver' = [driver EXCEPT ![d] = [st |-> "idle", ch |-> 0]]
    /\ LET rest == Tail(todo)
           left == DropUnlocks(rest)
       IN /\ mu' = IF left # rest THEN FALSE ELSE mu
          /\ todo' = left
          /\ cur' = IF left = << >> THEN NoMsg ELSE cur
          /\ path' = IF left = << >> THEN << >> ELSE path
    /\ UNCHANGED <<store, mailbox, nextChan, history>>

Next ==
    \/ \E d \in DOMAIN driver : DriverSend(d)
    \/ RegisterUser
    \/ CreateSubreddit
    \/ JoinSubreddit
    \/ LeaveSubreddit
    \/ CreatePost
    \/ CommentOnPost
    \/ ReplyToComment
    \/ LikePost
    \/ DislikePost
    \/ SendMessage
    \/ ReplyToMessage
    \/ ViewInbox
    \/ \E d \in DOMAIN driver : Deliver(d)

Spec == Init /\ [][Next]_vars

\* The same coordinator with several callers, each running the request and
\* wait of one case of main's switch on its own reply channel.
InitConc ==
    /\ users = << >>
    /\ subreddits = << >>
    /\ nextUserID = 0
    /\ nextPostID = 0
    /\ mu = FALSE
    /\ mailbox = << >>
    /\ cur = NoMsg
    /\ todo = << >>
    /\ driver = [d \in 1..NumCallers |-> [st |-> "idle", ch |-> 0]]
    /\ nextChan = 0
    /\ dropped = {}
    /\ nReg = 0
    /\ inboxLog = << >>
    /\ lastJL = << >>
    /\ path = << >>

SpecConc == InitConc /\ [][Next]_vars

\* ---------------------------------------------------------------- claims
\* A step in which Receive handles the request at the head of the mailbox.
Handles(kind) ==
    /\ cur = NoMsg
    /\ mailbox # << >>
    /\ Head(mailbox).kind = kind
    /\ mailbox' = Tail(mailbox)

\* The channel sends among a handler's remaining steps.
Sends(steps) == {i \in 1..Len(steps) : steps[i].op = "send"}

\* The handler is blocked on a send of value v for a request of that kind.
Replying(kind, v) ==
    /\ cur.kind = kind
    /\ todo # << >>
    /\ Head(todo) = SendStep(cur.Reply, v)

\* Every post of the store, as <<community, position>>.
PostRefs ==
    {<<n, i>> : n \in DOMAIN subreddits, i \in 1..MaxOps} \cap
    {r \in (DOMAIN subreddits) \X (1..MaxOps) :
        r[2] <= Len(subreddits[r[1]].Posts)}

PostAt(r) == subreddits[r[1]].Posts[r[2]]

\* C1: every request that reached the coordinator is answered: a driver
\* blocked on its reply channel always has its request still queued, or in
\* the hands of a handler that has a send on that channel ahead of it.
C1_EveryRequestAnswered ==
    \A d \in DOMAIN driver :
        driver[d].st = "waiting" =>
            \/ \E i \in 1..Len(mailbox) : mailbox[i].Reply = driver[d].ch
            \/ /\ cur.kind # "none"
               /\ cur.Reply = driver[d].ch
               /\ \E i \in Sends(todo) : todo[i].ch = driver[d].ch

\* C2: no path of any handler sends more than one value, and every send is
\* on the reply channel of the request being handled.
C2_AtMostOneReply ==
    /\ Cardinality(Sends(todo)) <= 1
    /\ \A i \in Sends(todo) : cur.kind # "none" /\ todo[i].ch = cur.Reply

\* C2 witness: CommentOnPost found its post and is on its single send.
C2_Witness ==
    /\ cur.kind = "CommentOnPost"
    /\ Cardinality(Sends(todo)) = 1
    /\ \E r \in PostRefs :
          PostAt(r).ID = cur.PostID /\ Len(PostAt(r).Comments) > 0

\* C3: the k-th RegisterUser handled gets id k; the registered ids are
\* exactly 1..nextUserID; only RegisterUser changes nextUserID or the users.
C3_State ==
    /\ DOMAIN users = 1..nextUserID
    /\ nextUserID = nReg
    /\ \A i \in DOMAIN users : users[i].ID = i
    /\ cur.kind = "RegisterUser" =>
          /\ users[nReg].Username = cur.Username
          /\ Replying("RegisterUser",
                Green \o "User '" \o cur.Username
                \o "' registered successfully with ID " \o ToString(nReg)
                \o "." \o Reset)

C3_Step ==
    /\ \A i \in DOMAIN users :
          /\ i \in DOMAIN users'
          /\ users'[i].ID = users[i].ID
          /\ users'[i].Username = users[i].Username
    /\ (nextUserID' # nextUserID \/ DOMAIN users' # DOMAIN users) =>
          /\ Handles("RegisterUser")
          /\ nextUserID' = nextUserID + 1
          /\ DOMAIN users' = DOMAIN users \cup {nextUserID + 1}

C3_SequentialUserIds == []C3_State /\ [][C3_Step]_vars

\* C3 witness: the second of two registrations under one name got id 2.
C3_Witness ==
    /\ cur.kind = "RegisterUser"
    /\ nReg = 2
    /\ DOMAIN users = {1, 2}
    /\ users[1].Username = users[2].Username

\* C4: post ids are unique across the whole store and lie in 1..nextPostID.
C4_UniquePostIds ==
    /\ \A r, q \in PostRefs : PostAt(r).ID = PostAt(q).ID => r = q
    /\ \A r \in PostRefs : PostAt(r).ID \in 1..nextPostID

\* C4 witness: one community holds two posts and another holds a post.
C4_Witness ==
    \E r, q, t \in PostRefs : r[1] = q[1] /\ r[2] # q[2] /\ t[1] # r[1]

\* C5: CreatePost on a missing community replies "does not exist", stores
\* nothing and still adds one to nextPostID; nextPostID never decreases; a
\* successful CreatePost stores its post under the incremented counter.
C5_Step ==
    /\ nextPostID' >= nextPostID
    /\ Handles("CreatePost") =>
          IF Head(mailbox).Subreddit \in DOMAIN subreddits
          THEN /\ nextPostID' = nextPostID + 1
               /\ \E r \in PostRefs' :
                     /\ r \notin PostRefs
                     /\ subreddits'[r[1]].Posts[r[2]].ID = nextPostID + 1
          ELSE /\ nextPostID' = nextPostID + 1
               /\ <<users, subreddits, nextUserID>>' =
                     <<users, subreddits, nextUserID>>
               /\ todo' = <<SendStep(Head(mailbox).Reply,
                     Red \o "Subreddit '" \o Head(mailbox).Subreddit
                     \o "' does not exist." \o Reset), UnlockStep>>

C5_FailedPostConsumesId == [][C5_Step]_vars

\* C5 witness: a stored post has id 2 and no post has id 1, the id a failed
\* CreatePost consumed.
C5_Witness ==
    /\ nextPostID = 2
    /\ \E r \in PostRefs : PostAt(r).ID = 2
    /\ \A r \in PostRefs : PostAt(r).ID # 1

\* C6: CreateSubreddit under a name that exists leaves the whole store as it
\* was (the community keeps its members, posts and comments) and replies
\* "already exists".
C6_Step ==
    (Handles("CreateSubreddit") /\ Head(mailbox).Subreddit \in DOMAIN subreddits)
    => /\ store' = store
       /\ todo' # << >>
       /\ Head(todo') = SendStep(Head(mailbox).Reply,
             Green \o "Subreddit '" \o Head(mailbox).Subreddit
             \o "' already exists." \o Reset)

C6_DuplicateCreateKeepsCommunity == [][C6_Step]_vars

\* C6 witness: "already exists" is being sent for a community that has a
\* member and a commented post.
C6_Witness ==
    /\ cur.kind = "CreateSubreddit"
    /\ Replying("CreateSubreddit",
          Green \o "Subreddit '" \o cur.Subreddit \o "' already exists." \o Reset)
    /\ subreddits[cur.Subreddit].Users # {}
    /\ Len(subreddits[cur.Subreddit].Posts) > 0
    /\ Len(subreddits[cur.Subreddit].Posts[1].Comments) > 0

\* C7: JoinSubreddit and LeaveSubreddit on a missing community leave the
\* whole store as it was, create no community, and reply "does not exist",
\* whatever the user id.
C7_Step ==
    ((Handles("JoinSubreddit") \/ Handles("LeaveSubreddit"))
        /\ Head(mailbox).Subreddit \notin DOMAIN subreddits)
    => /\ store' = store
       /\ todo' # << >>
       /\ Head(todo') = SendStep(Head(mailbox).Reply,
             Red \o "Subreddit '" \o Head(mailbox).Subreddit
             \o "' does not exist." \o Reset)

C7_MissingCommunityNoChange == [][C7_Step]_vars

\* C7 witness: an unregistered id joins a missing community while another
\* community and a user exist.
C7_Witness ==
    /\ cur.kind = "JoinSubreddit"
    /\ cur.Subreddit \notin DOMAIN subreddits
    /\ cur.UserID \notin DOMAIN users
    /\ DOMAIN subreddits # {}
    /\ DOMAIN users # {}
    /\ Sends(todo) # {}

\* C8: a user is a member of an existing community exactly when the last
\* join or leave handled for that user and community was a join.
C8_LastJoinLeaveWins ==
    /\ \A k \in DOMAIN lastJL : k[2] \in DOMAIN subreddits
    /\ \A n \in DOMAIN subreddits :
          subreddits[n].Users =
              {u \in UserIDs : /\ <<u, n>> \in DOMAIN lastJL
                               /\ lastJL[<<u, n>>] = "join"}

\* C8 witness: the last request of user 1 on a community was a leave, the
\* last of user 2 a join, and user 2 is its only member.
C8_Witness ==
    /\ cur.kind = "LeaveSubreddit"
    /\ cur.UserID = 1
    /\ <<1, cur.Subreddit>> \in DOMAIN lastJL
    /\ <<2, cur.Subreddit>> \in DOMAIN lastJL
    /\ lastJL[<<1, cur.Subreddit>>] = "leave"
    /\ lastJL[<<2, cur.Subreddit>>] = "join"
    /\ subreddits[cur.Subreddit].Users = {2}

\* C9: ReplyToComment on an existing post and a comment index within its
\* comment list appends the reply text to that comment, changes nothing else
\* and sends the confirmation.
C9_Step ==
    Handles("ReplyToComment") =>
        LET msg == Head(mailbox)
        IN \A r \in PostRefs :
              (/\ PostAt(r).ID = msg.PostID
               /\ msg.CommentID >= 1
               /\ msg.CommentID <= Len(PostAt(r).Comments))
              => /\ <<users, nextUserID, nextPostID>>' =
                       <<users, nextUserID, nextPostID>>
                 /\ \E name \in Usernames \cup {getUsername(msg.UserID)} :
                       /\ subreddits' = [subreddits EXCEPT
                             ![r[1]].Posts[r[2]].Comments[msg.CommentID] =
                                 @ \o "\nReply by '" \o name \o "': "
                                   \o msg.Content]
                       /\ todo' # << >>
                       /\ Head(todo') = SendStep(msg.Reply,
                             Green \o "User '" \o name \o "' replied to comment "
                             \o ToString(msg.CommentID) \o " on post "
                             \o ToString(msg.PostID) \o ": " \o msg.Content
                             \o Reset)

C9_ReplyAppendsInPlace == [][C9_Step]_vars

\* The inbox line a message request produces.
LineOf(e) ==
    (IF e.kind = "SendMessage" THEN "Message" ELSE "Reply")
    \o " from '" \o e.from \o "': " \o e.text

ExpectedInbox(u) == [i \in 1..Len(inboxLog[u]) |-> LineOf(inboxLog[u][i])]

\* C10: every inbox is the lines of the message requests addressed to its
\* user, in handling order; ViewInbox returns them newline-joined, the
\* empty-inbox reply when there are none, "does not exist" for an
\* unregistered id, and changes nothing in the store.
C10_State ==
    /\ DOMAIN inboxLog = DOMAIN users
    /\ \A u \in DOMAIN users : users[u].Inbox = ExpectedInbox(u)
    /\ cur.kind = "ViewInbox" =>
          Replying("ViewInbox",
              IF cur.UserID \notin DOMAIN users
              THEN Red \o "User with ID " \o ToString(cur.UserID)
                   \o " does not exist." \o Reset
              ELSE IF Len(inboxLog[cur.UserID]) = 0
                   THEN Green \o "Inbox is empty." \o Reset
                   ELSE Green \o "Inbox:\n"
                        \o Join(ExpectedInbox(cur.UserID), "\n") \o Reset)

C10_Step == Handles("ViewInbox") => store' = store

C10_InboxIsMessageLog == []C10_State /\ [][C10_Step]_vars

\* C10 witness: ViewInbox is answering for a user whose inbox holds two
\* different lines.
C10_Witness ==
    /\ cur.kind = "ViewInbox"
    /\ Sends(todo) # {}
    /\ cur.UserID \in DOMAIN users
    /\ Len(users[cur.UserID].Inbox) = 2
    /\ users[cur.UserID].Inbox[1] # users[cur.UserID].Inbox[2]

\* The twelve request kinds.
Kinds ==
    {"RegisterUser", "CreateSubreddit", "JoinSubreddit", "LeaveSubreddit",
     "CreatePost", "CommentOnPost", "ReplyToComment", "LikePost", "DislikePost",
     "SendMessage", "ReplyToMessage", "ViewInbox"}

\* C11: with concurrent callers the coordinator handles one request at a
\* time: the store changes only in the step of a handler, and a handler
\* begins only when the previous one has finished, released the lock and had
\* its reply received, so every caller still waiting has its request queued.
C11_Step ==
    /\ store' # store => \E k \in Kinds : Handles(k)
    /\ (\E k \in Kinds : Handles(k)) =>
          /\ todo = << >>
          /\ ~mu
          /\ \A d \in DOMAIN driver :
                driver[d].st = "waiting" =>
                    \E i \in 1..Len(mailbox) : mailbox[i].Reply = driver[d].ch

C11_OneAtATime == [][C11_Step]_vars

\* C12: LikePost and DislikePost change nothing in the store and reply with
\* the confirmation, whether or not the post or the user exists.
C12_Step ==
    (Handles("LikePost") \/ Handles("DislikePost")) =>
        LET msg == Head(mailbox)
        IN /\ store' = store
           /\ todo' = <<SendStep(msg.Reply,
                 Green \o "User '" \o getUsername(msg.UserID) \o "' "
                 \o (IF msg.kind = "LikePost" THEN "liked" ELSE "disliked")
                 \o " post " \o ToString(msg.PostID) \o "." \o Reset)>>

C12_LikeIsCosmetic == [][C12_Step]_vars

\* C12 witness: a like by an unregistered id of a post id that is not stored
\* is being confirmed.
C12_Witness ==
    /\ cur.kind = "LikePost"
    /\ Sends(todo) # {}
    /\ cur.UserID \notin DOMAIN users
    /\ PostRefs # {}
    /\ \A r \in PostRefs : PostAt(r).ID # cur.PostID

\* s is an initial segment of t.
IsPrefix(s, t) == Len(s) <= Len(t) /\ \A i \in 1..Len(s) : s[i] = t[i]

\* C13: in every step every user, community and post stays, with its id,
\* name, owner, community and content; inboxes and post lists only grow at
\* the end and no post loses a comment.
C13_Step ==
    /\ \A u \in DOMAIN users :
          /\ u \in DOMAIN users'
          /\ users'[u].ID = users[u].ID
          /\ users'[u].Username = users[u].Username
          /\ IsPrefix(users[u].Inbox, users'[u].Inbox)
    /\ \A n \in DOMAIN subreddits :
          /\ n \in DOMAIN subreddits'
          /\ subreddits'[n].Name = subreddits[n].Name
          /\ Len(subreddits[n].Posts) <= Len(subreddits'[n].Posts)
          /\ \A i \in 1..Len(subreddits[n].Posts) :
                LET old == subreddits[n].Posts[i]
                    new == subreddits'[n].Posts[i]
                IN /\ new.ID = old.ID
                   /\ new.UserID = old.UserID
                   /\ new.Subreddit = old.Subreddit
                   /\ new.Content = old.Content
                   /\ Len(new.Comments) >= Len(old.Comments)

C13_OnlyMembershipShrinks == [][C13_Step]_vars

\* C13 witness: a leave has been handled on a community that holds a post
\* while a user with a message in the inbox exists.
C13_Witness ==
    /\ cur.kind = "LeaveSubreddit"
    /\ cur.Subreddit \in DOMAIN subreddits
    /\ Len(subreddits[cur.Subreddit].Posts) > 0
    /\ \E u \in DOMAIN users : Len(users[u].Inbox) > 0

\* A handler's accesses to the store all fall between a Lock and the Unlock.
RECURSIVE AccessesLocked(_, _)
AccessesLocked(events, held) ==
    IF events = << >> THEN TRUE
    ELSE /\ Head(events) = "access" => held
         /\ AccessesLocked(Tail(events),
               IF Head(events) = "lock" THEN TRUE
               ELSE IF Head(events) = "unlock" THEN FALSE ELSE held)

\* C14: no handler reads or writes the store while it does not hold the lock.
C14_StoreOnlyUnderLock == AccessesLocked(path, FALSE)

\* C15: the coordinator is never blocked on a reply channel while it holds
\* the lock.
C15_NoSendUnderLock == ~(mu /\ todo # << >> /\ Head(todo).op = "send")

\* C16: CommentOnPost on a stored post appends one comment at the end of
\* that post's comments, changes nothing else and confirms, whoever the
\* user id; on an id that matches no post it changes nothing and replies
\* "not found".
C16_Step ==
    Handles("CommentOnPost") =>
        LET msg == Head(mailbox)
            hits == {r \in PostRefs : PostAt(r).ID = msg.PostID}
        IN /\ <<users, nextUserID, nextPostID>>' = <<users, nextUserID, nextPostID>>
           /\ todo' # << >>
           /\ IF hits # {}
              THEN /\ \E r \in hits :
                         subreddits' = [subreddits EXCEPT
                            ![r[1]].Posts[r[2]].Comments =
                                Append(@, "User '" \o getUsername(msg.UserID)
                                          \o "': " \o msg.Content)]
                   /\ Head(todo') = SendStep(msg.Reply,
                         Green \o "User '" \o getUsername(msg.UserID)
                         \o "' commented on post " \o ToString(msg.PostID)
                         \o ": " \o msg.Content \o Reset)
              ELSE /\ subreddits' = subreddits
                   /\ Head(todo') = SendStep(msg.Reply,
                         Red \o "Post ID '%!d(MISSING)' not found." \o Reset)

C16_CommentAppends == [][C16_Step]_vars

\* C16 witness: an unregistered id has added a second comment to a post,
\* after a different first one.
C16_Witness ==
    /\ cur.kind = "CommentOnPost"
    /\ cur.UserID \notin DOMAIN users
    /\ \E r \in PostRefs :
          /\ PostAt(r).ID = cur.PostID
          /\ Len(PostAt(r).Comments) = 2
          /\ PostAt(r).Comments[1] # PostAt(r).Comments[2]

\* C17: ReplyToComment on a post id that is not stored, or on a comment
\* index outside 1..count of the post, changes nothing and replies "not
\* found".
C17_Step ==
    (/\ Handles("ReplyToComment")
     /\ \A r \in PostRefs :
           \/ PostAt(r).ID # Head(mailbox).PostID
           \/ Head(mailbox).CommentID < 1
           \/ Head(mailbox).CommentID > Len(PostAt(r).Comments))
    => /\ store' = store
       /\ todo' # << >>
       /\ Head(todo') = SendStep(Head(mailbox).Reply,
             Red \o "Comment or Post not found." \o Reset)

C17_BadReplyTargetNoChange == [][C17_Step]_vars

\* C17 witness: "not found" is being sent for an index outside the comments
\* of a stored post that has a comment.
C17_Witness ==
    /\ cur.kind = "ReplyToComment"
    /\ Replying("ReplyToComment", Red \o "Comment or Post not found." \o Reset)
    /\ \E r \in PostRefs :
          /\ PostAt(r).ID = cur.PostID
          /\ Len(PostAt(r).Comments) > 0
          /\ cur.CommentID \notin 1..Len(PostAt(r).Comments)

\* C18: SendMessage and ReplyToMessage append one line at the end of a
\* registered receiver's inbox and change nothing else, whoever the sender;
\* for an unregistered receiver they change nothing and reply "does not
\* exist".
C18_Step ==
    (Handles("SendMessage") \/ Handles("ReplyToMessage")) =>
        LET msg == Head(mailbox)
        IN /\ <<subreddits, nextUserID, nextPostID>>' =
                 <<subreddits, nextUserID, nextPostID>>
           /\ IF msg.ReceiverID \in DOMAIN users
              THEN /\ DOMAIN users' = DOMAIN users
                   /\ \A u \in DOMAIN users \ {msg.ReceiverID} :
                         users'[u] = users[u]
                   /\ users'[msg.ReceiverID].ID = users[msg.ReceiverID].ID
                   /\ users'[msg.ReceiverID].Username =
                         users[msg.ReceiverID].Username
                   /\ Len(users'[msg.ReceiverID].Inbox) =
                         Len(users[msg.ReceiverID].Inbox) + 1
                   /\ IsPrefix(users[msg.ReceiverID].Inbox,
                               users'[msg.ReceiverID].Inbox)
              ELSE /\ users' = users
                   /\ todo' # << >>
                   /\ Head(todo') = SendStep(msg.Reply,
                         Red \o "User with ID " \o ToString(msg.ReceiverID)
                         \o " does not exist." \o Reset)

C18_MessageTouchesReceiverOnly == [][C18_Step]_vars

\* C18 witness: a registered user has sent a message to another registered
\* user, whose inbox now holds it.
C18_Witness ==
    /\ cur.kind = "SendMessage"
    /\ cur.SenderID \in DOMAIN users
    /\ cur.ReceiverID \in DOMAIN users
    /\ cur.SenderID # cur.ReceiverID
    /\ Len(users[cur.ReceiverID].Inbox) > 0
    /\ Len(users[cur.SenderID].Inbox) = 0

\* C19: the scans of CommentOnPost and ReplyToComment find the same post
\* under every order in which the communities can be visited, so the store
\* they produce and the reply they send, which the handlers compute from
\* what the scan found, do not depend on the order.
C19_ScanOrderIrrelevant ==
    \A o1, o2 \in RangeOrders(DOMAIN subreddits) :
        \A p \in PostIDs :
            /\ ScanForPost(o1, p) = ScanForPost(o2, p)
            /\ \A c \in CommentIDs :
                  ScanForComment(o1, p, c) = ScanForComment(o2, p, c)

\* C19 witness: a comment is being confirmed while two communities each
\* hold a post.
C19_Witness ==
    /\ cur.kind = "CommentOnPost"
    /\ Sends(todo) # {}
    /\ \E r, q \in PostRefs : r[1] # q[1]
    /\ \E r \in PostRefs : PostAt(r).ID = cur.PostID

\* C20: whenever no request is in hand the lock is free, after an early
\* return, a fall-through and a panic alike.
C20_LockFreeBetweenRequests == cur = NoMsg => ~mu

\* C20 witness: a handler has panicked and left the lock free.
C20_Witness ==
    /\ dropped # {}
    /\ cur = NoMsg
    /\ path = PathReplyPanic
    /\ ~mu

====
